---- MODULE Spec2Model ----
(***************************************************************************)
(* A model of FX.js: the lazy tree root `fx`, the reactive node proxy      *)
(* created by createReactiveNode, the binder behind `$`, the DOM           *)
(* synchronisers and the inference helpers, run against a small live       *)
(* document whose elements a user can edit and dispatch events on.         *)
(*                                                                         *)
(* JavaScript values are encoded as strings so that values of different    *)
(* JavaScript types can be compared: null is "null", true/false are        *)
(* "true"/"false", the number n is its decimal text, and the string s is   *)
(* s prefixed by a quote character.                                        *)
(***************************************************************************)
EXTENDS Integers, Sequences, FiniteSets, TLC

VARIABLES
    root,       \* own properties of the root proxy's target: name -> node id, 0 = unset
    heap,       \* the reactive nodes allocated so far; a node's identity is its index
    elems,      \* the live state of every element of the document
    listeners,  \* per element, the listeners added by addEventListener, in order
    last,       \* the operation that ran last, what it returned and what it threw
    steps       \* how many operations have run

vars == <<root, heap, elems, listeners, last, steps>>

-----------------------------------------------------------------------------
(* Bounds of the model *)

\* How many operations a run performs.
MaxSteps == 4

\* How many reactive nodes may be allocated (the ordinary names need two).
MaxHeap == 3

\* The largest option index a user may pick in the <select>.
MaxIndex == 1

-----------------------------------------------------------------------------
(* JavaScript values *)

Null == "null"
Undefined == "undefined"
JSStr(s) == "'" \o s
JSBool(b) == IF b THEN "true" ELSE "false"
JSNum(n) == ToString(n)

\* The values callers assign to node.value.
AssignVals == {JSStr("a"), JSBool(TRUE)}

\* The texts a user may type.
Texts == {"", "a"}

-----------------------------------------------------------------------------
(* Attribute maps.  A value assigned to node.attr is either an object with  *)
(* own string-valued pairs or null.                                         *)

EmptyMap == [k \in {} |-> ""]
MapIdClass == [k \in {"id", "class"} |-> IF k = "id" THEN "x" ELSE "y"]
MapId == [k \in {"id"} |-> "z"]

Obj(m) == [obj |-> TRUE, m |-> m]
NullAttr == [obj |-> FALSE, m |-> EmptyMap]

\* The values callers assign to node.attr.
AssignAttrs == {Obj(MapIdClass), Obj(MapId), NullAttr}

-----------------------------------------------------------------------------
(* The document: four elements, in document order. *)

Document == <<"inp", "chk", "sel", "div">>
ElemIds == {Document[i] : i \in 1..Len(Document)}

tagName(e) ==
    CASE e = "inp" -> "INPUT"
      [] e = "chk" -> "INPUT"
      [] e = "sel" -> "SELECT"
      [] OTHER -> "DIV"

\* element.type; a <div> has no such property.
type(e) ==
    CASE e = "inp" -> "text"
      [] e = "chk" -> "checkbox"
      [] e = "sel" -> "select-one"
      [] OTHER -> "undefined"

\* The selectors used with the binder; "" is not a valid selector.
Selectors == {"input", "[type=checkbox]", "body *", "p", ""}

ValidSelector(s) == s # ""

Matches(s, e) ==
    CASE s = "input" -> tagName(e) = "INPUT"
      [] s = "[type=checkbox]" -> type(e) = "checkbox"
      [] s = "body *" -> TRUE
      [] OTHER -> FALSE

\* document.querySelectorAll(s): the matching elements in document order.
querySelectorAll(s) == SelectSeq(Document, LAMBDA e : Matches(s, e))

\* The events a user interaction dispatches on an element.
EventTypes == {"input", "change"}

InitElem(e) ==
    [value |-> IF e = "chk" THEN "on" ELSE "",
     checked |-> FALSE,
     selectedIndex |-> 0,
     innerHTML |-> "",
     attrs |-> EmptyMap]

-----------------------------------------------------------------------------
(* The root's target is a plain object literal, so reading a name that     *)
(* Object.prototype defines finds the inherited member.                    *)

OwnNames == {"a", "b"}
Inherited == {"toString"}
Names == OwnNames \cup Inherited

-----------------------------------------------------------------------------
(* References a caller can hold *)

Proxy(n) == [kind |-> "proxy", id |-> n]
Target(n) == [kind |-> "target", id |-> n]
Native == [kind |-> "native", id |-> 0]
NoRef == [kind |-> "none", id |-> 0]
UndefinedRef == [kind |-> "undefined", id |-> 0]
PlainValue == [kind |-> "plain", id |-> 0]

\* The property names, other than value, attr, DOM and $, that callers read
\* and assign on a node.
OtherProps == {"name"}

Range(s) == {s[i] : i \in 1..Len(s)}

-----------------------------------------------------------------------------
(* createReactiveNode: the record behind a node proxy.  The object literal  *)
(* has the properties value, attr and DOM; any other property reads as      *)
(* undefined until it is assigned.                                          *)

createReactiveNode ==
    [value |-> Null, attr |-> Obj(EmptyMap), DOM |-> <<>>,
     props |-> [q \in OtherProps |-> Undefined]]

-----------------------------------------------------------------------------
(* Inference helpers *)

inferBindingType(e) ==
    IF tagName(e) = "INPUT" \/ tagName(e) = "TEXTAREA" THEN "value"
    ELSE IF tagName(e) = "SELECT" THEN "selectedIndex"
    ELSE IF type(e) = "checkbox" \/ type(e) = "radio" THEN "checked"
    ELSE "innerHTML"

inferEventType(e) ==
    IF tagName(e) = "INPUT" \/ tagName(e) = "TEXTAREA" THEN "input"
    ELSE IF tagName(e) = "SELECT" THEN "change"
    ELSE IF type(e) = "checkbox" \/ type(e) = "radio" THEN "change"
    ELSE "input"

\* getElementValue(element), el being the element's live state.
getElementValue(e, el) ==
    LET t == inferBindingType(e) IN
    IF t = "value" THEN JSStr(el.value)
    ELSE IF t = "checked" THEN JSBool(el.checked)
    ELSE IF t = "selectedIndex" THEN JSNum(el.selectedIndex)
    ELSE JSStr(el.innerHTML)

-----------------------------------------------------------------------------
(* bindDOM(selector, node): st carries node.DOM and the listener lists *)

\* bindDOMElement without the includes() test: every match is pushed.
bindDOMElementNoCheck(st, element, n) ==
    [DOM |-> Append(st.DOM, element),
     listeners |-> [st.listeners EXCEPT ![element] =
                       Append(@, [type |-> inferEventType(element), node |-> n])]]

\* bindDOMElement with unshift in place of push: a new element goes first.
bindDOMElementUnshift(st, element, n) ==
    IF element \notin Range(st.DOM)
    THEN [DOM |-> <<element>> \o st.DOM,
          listeners |-> [st.listeners EXCEPT ![element] =
                            Append(@, [type |-> inferEventType(element), node |-> n])]]
    ELSE st

bindDOMElement(st, element, n) ==
    IF element \notin Range(st.DOM)
    THEN [DOM |-> Append(st.DOM, element),
          listeners |-> [st.listeners EXCEPT ![element] =
                            Append(@, [type |-> inferEventType(element), node |-> n])]]
    ELSE st

RECURSIVE bindDOMForEach(_, _, _, _)
bindDOMForEach(elements, i, st, n) ==
    IF i > Len(elements) THEN st
    ELSE bindDOMForEach(elements, i + 1, bindDOMElement(st, elements[i], n), n)

\* The result of bindDOM: the new node.DOM and listeners, the reference
\* handed back, and the error thrown by the selector query.
bindDOM(selector, n, hp, lst) ==
    IF ~ValidSelector(selector)
    THEN [DOM |-> hp[n].DOM, listeners |-> lst, ret |-> NoRef, err |-> "SyntaxError"]
    ELSE LET st == bindDOMForEach(querySelectorAll(selector), 1,
                                  [DOM |-> hp[n].DOM, listeners |-> lst], n)
         IN [DOM |-> st.DOM, listeners |-> st.listeners, ret |-> Target(n), err |-> "none"]

-----------------------------------------------------------------------------
(* The DOM synchronisers *)

\* updateDOMValues(node): each iteration calls updateDOM, which no line of
\* FX.js defines, so the first iteration throws a ReferenceError.
updateDOMValues(node, els) ==
    IF Len(node.DOM) = 0
    THEN [elems |-> els, err |-> "none"]
    ELSE [elems |-> els, err |-> "ReferenceError"]

\* setAttributes replacing the element's attributes by the map's pairs.
setAttributesReplace(el, m) == [el EXCEPT !.attrs = m]

\* element.setAttribute(key, value) for every own pair of the map.
setAttributes(el, m) ==
    [el EXCEPT !.attrs =
        [k \in (DOMAIN el.attrs) \cup (DOMAIN m) |->
            IF k \in DOMAIN m THEN m[k] ELSE el.attrs[k]]]

\* updateDOMAttributes(node): Object.entries(null) throws a TypeError in the
\* first iteration.
updateDOMAttributes(node, els) ==
    IF Len(node.DOM) = 0
    THEN [elems |-> els, err |-> "none"]
    ELSE IF ~node.attr.obj
    THEN [elems |-> els, err |-> "TypeError"]
    ELSE [elems |-> [e \in ElemIds |->
                        IF e \in Range(node.DOM)
                        THEN setAttributes(els[e], node.attr.m)
                        ELSE els[e]],
          err |-> "none"]

-----------------------------------------------------------------------------
(* The listener bindDOM attaches, and event dispatch *)

\* A listener whose closure holds the first node instead of its own.
listenerFirstNode(hp, n, e, els) ==
    [hp EXCEPT ![1].value = getElementValue(e, els[e])]

\* () => { node.value = getElementValue(element) }, node being the record
\* bindDOM was handed.
listener(hp, n, e, els) ==
    [hp EXCEPT ![n].value = getElementValue(e, els[e])]

RECURSIVE dispatchEvent(_, _, _, _, _)
dispatchEvent(ls, i, evt, e, st) ==
    IF i > Len(ls) THEN st
    ELSE dispatchEvent(ls, i + 1, evt, e,
            IF ls[i].type = evt
            THEN [heap |-> listener(st.heap, ls[i].node, e, st.elems),
                  elems |-> st.elems, ran |-> st.ran + 1]
            ELSE st)

-----------------------------------------------------------------------------
(* The operations.  A caller reaches a node by reading it from the root, so *)
(* every node operation is the statement `fx[prop]. ...` and begins with    *)
(* the root's get trap.                                                     *)

Op(op, name, arg, node, ret, err, ran) ==
    [op |-> op, name |-> name, arg |-> arg, node |-> node,
     ret |-> ret, err |-> err, ran |-> ran]

Init ==
    /\ root = [p \in OwnNames |-> 0]
    /\ heap = <<>>
    /\ elems = [e \in ElemIds |-> InitElem(e)]
    /\ listeners = [e \in ElemIds |-> <<>>]
    /\ last = Op("init", "", "", 0, NoRef, "none", 0)
    /\ steps = 0

\* Every operation counts as one step of the run.
Step ==
    /\ steps < MaxSteps
    /\ steps' = steps + 1

\* fxGet without the `!target[prop]` test: every read of an ordinary name
\* creates and stores a node.
fxGetAlwaysCreates(prop, rt, hp) ==
    IF prop \in Inherited
    THEN [root |-> rt, heap |-> hp, ret |-> Native]
    ELSE [root |-> [rt EXCEPT ![prop] = Len(hp) + 1],
          heap |-> Append(hp, createReactiveNode),
          ret |-> Proxy(Len(hp) + 1)]

\* The root proxy's get trap: what target[prop] holds afterwards and what the
\* read returns.  An inherited member is truthy, so nothing is created.
fxGet(prop, rt, hp) ==
    IF prop \in Inherited
    THEN [root |-> rt, heap |-> hp, ret |-> Native]
    ELSE IF rt[prop] = 0
    THEN [root |-> [rt EXCEPT ![prop] = Len(hp) + 1],
          heap |-> Append(hp, createReactiveNode),
          ret |-> Proxy(Len(hp) + 1)]
    ELSE [root |-> rt, heap |-> hp, ret |-> Proxy(rt[prop])]

\* fx[prop]
FxGet(prop) ==
    LET r == fxGet(prop, root, heap) IN
    /\ Step
    /\ Len(r.heap) <= MaxHeap
    /\ root' = r.root
    /\ heap' = r.heap
    /\ last' = Op("fxGet", prop, "", r.ret.id, r.ret, "none", 0)
    /\ UNCHANGED <<elems, listeners>>

\* fx[prop].$[selector]: the node proxy's get trap hands out the binder,
\* whose get trap runs bindDOM on the proxy's target.
BindDot(prop, selector) ==
    LET g == fxGet(prop, root, heap)
        n == g.ret.id
        r == bindDOM(selector, n, g.heap, listeners)
    IN
    /\ Step
    /\ Len(g.heap) <= MaxHeap
    /\ root' = g.root
    /\ heap' = [g.heap EXCEPT ![n].DOM = r.DOM]
    /\ listeners' = r.listeners
    /\ last' = Op("bindDot", prop, selector, n, r.ret, r.err, 0)
    /\ UNCHANGED elems

\* fx[prop].$(selector): the binder is a proxy over an object literal, which
\* is not callable, so the call throws and the apply trap never runs.
BindCall(prop, selector) ==
    LET g == fxGet(prop, root, heap) IN
    /\ Step
    /\ Len(g.heap) <= MaxHeap
    /\ root' = g.root
    /\ heap' = g.heap
    /\ last' = Op("bindCall", prop, selector, g.ret.id, NoRef, "TypeError", 0)
    /\ UNCHANGED <<elems, listeners>>

\* The node proxy's set trap for `value`.
setValue(n, v, hp, els) ==
    LET stored == [hp EXCEPT ![n].value = v]
        r == updateDOMValues(stored[n], els)
    IN [heap |-> stored, elems |-> r.elems, err |-> r.err]

\* setAttr rejecting a non-object before it stores.
setAttrValidates(n, a, hp, els) ==
    IF ~a.obj
    THEN [heap |-> hp, elems |-> els, err |-> "TypeError"]
    ELSE LET stored == [hp EXCEPT ![n].attr = a]
             r == updateDOMAttributes(stored[n], els)
         IN [heap |-> stored, elems |-> r.elems, err |-> r.err]

\* The node proxy's set trap for `attr`.
setAttr(n, a, hp, els) ==
    LET stored == [hp EXCEPT ![n].attr = a]
        r == updateDOMAttributes(stored[n], els)
    IN [heap |-> stored, elems |-> r.elems, err |-> r.err]

\* fx[prop].value = v
SetValue(prop, v) ==
    LET g == fxGet(prop, root, heap)
        n == g.ret.id
        r == setValue(n, v, g.heap, elems)
    IN
    /\ Step
    /\ Len(g.heap) <= MaxHeap
    /\ root' = g.root
    /\ heap' = r.heap
    /\ elems' = r.elems
    /\ last' = Op("setValue", prop, v, n, NoRef, r.err, 0)
    /\ UNCHANGED listeners

\* fx[prop].attr = a
SetAttr(prop, a) ==
    LET g == fxGet(prop, root, heap)
        n == g.ret.id
        r == setAttr(n, a, g.heap, elems)
    IN
    /\ Step
    /\ Len(g.heap) <= MaxHeap
    /\ root' = g.root
    /\ heap' = r.heap
    /\ elems' = r.elems
    /\ last' = Op("setAttr", prop, IF a.obj THEN "object" ELSE "null", n, NoRef, r.err, 0)
    /\ UNCHANGED listeners

\* setOther falling through into the value branch's store.
setOtherAlsoValue(n, q, v, hp, els) ==
    [heap |-> [hp EXCEPT ![n].props[q] = v, ![n].value = v], elems |-> els, err |-> "none"]

\* The node proxy's set trap for any other property: a store.
setOther(n, q, v, hp, els) ==
    [heap |-> [hp EXCEPT ![n].props[q] = v], elems |-> els, err |-> "none"]

\* fx[prop][q] = v
SetOther(prop, q, v) ==
    LET g == fxGet(prop, root, heap)
        n == g.ret.id
        r == setOther(n, q, v, g.heap, elems)
    IN
    /\ Step
    /\ Len(g.heap) <= MaxHeap
    /\ root' = g.root
    /\ heap' = r.heap
    /\ elems' = r.elems
    /\ last' = Op("setOther", prop, q, n, NoRef, r.err, 0)
    /\ UNCHANGED listeners

\* The node proxy's get trap for a property other than $: target[prop].
nodeGet(n, q, hp) ==
    IF hp[n].props[q] = Undefined THEN UndefinedRef ELSE PlainValue

\* fx[prop][q]
NodeGet(prop, q) ==
    LET g == fxGet(prop, root, heap)
        n == g.ret.id
    IN
    /\ Step
    /\ Len(g.heap) <= MaxHeap
    /\ root' = g.root
    /\ heap' = g.heap
    /\ last' = Op("nodeGet", prop, q, n, nodeGet(n, q, g.heap), "none", 0)
    /\ UNCHANGED <<elems, listeners>>

\* fx[prop].$[selector].value = v, written as a second statement on what the
\* bind just returned: the record behind the proxy, so a plain store.
ChainSetValue(v) ==
    /\ Step
    /\ last.op = "bindDot"
    /\ last.ret.kind = "target"
    /\ heap' = [heap EXCEPT ![last.ret.id].value = v]
    /\ last' = Op("chainSetValue", last.name, v, last.ret.id, NoRef, "none", 0)
    /\ UNCHANGED <<root, elems, listeners>>

\* fx[prop].$[selector].attr = a, likewise.
ChainSetAttr(a) ==
    /\ Step
    /\ last.op = "bindDot"
    /\ last.ret.kind = "target"
    /\ heap' = [heap EXCEPT ![last.ret.id].attr = a]
    /\ last' = Op("chainSetAttr", last.name, "", last.ret.id, NoRef, "none", 0)
    /\ UNCHANGED <<root, elems, listeners>>

\* The user changes what an element shows; no event has been delivered yet.
UserEdit(e) ==
    /\ Step
    /\ \/ /\ e = "inp"
          /\ \E t \in Texts : elems' = [elems EXCEPT ![e].value = t]
       \/ /\ e = "chk"
          /\ elems' = [elems EXCEPT ![e].checked = ~@]
       \/ /\ e = "sel"
          /\ \E i \in 0..MaxIndex : elems' = [elems EXCEPT ![e].selectedIndex = i]
       \/ /\ e = "div"
          /\ \E t \in Texts : elems' = [elems EXCEPT ![e].innerHTML = t]
    /\ elems' # elems
    /\ last' = Op("userEdit", e, "", 0, NoRef, "none", 0)
    /\ UNCHANGED <<root, heap, listeners>>

\* An event of type evt is dispatched on e: its listeners of that type run in
\* the order they were added.
Dispatch(e, evt) ==
    LET r == dispatchEvent(listeners[e], 1, evt, e,
                           [heap |-> heap, elems |-> elems, ran |-> 0]) IN
    /\ Step
    /\ heap' = r.heap
    /\ elems' = r.elems
    /\ last' = Op("dispatch", e, evt, 0, NoRef, "none", r.ran)
    /\ UNCHANGED <<root, listeners>>

\* Value synchronisation and attribute synchronisation touch disjoint state
\* (node.value and the elements' channels; node.attr and the elements'
\* attributes), so each is explored with the root and the binder.

Next ==
    \/ \E p \in Names : FxGet(p)
    \/ \E p \in OwnNames, s \in Selectors : BindDot(p, s)
    \/ \E p \in OwnNames, s \in Selectors : BindCall(p, s)
    \/ \E p \in OwnNames, v \in AssignVals : SetValue(p, v)
    \/ \E v \in AssignVals : ChainSetValue(v)
    \/ \E e \in ElemIds : UserEdit(e)
    \/ \E e \in ElemIds, evt \in EventTypes : Dispatch(e, evt)

Spec == Init /\ [][Next]_vars

NextAttr ==
    \/ \E p \in Names : FxGet(p)
    \/ \E p \in OwnNames, s \in Selectors : BindDot(p, s)
    \/ \E p \in OwnNames, a \in AssignAttrs : SetAttr(p, a)
    \/ \E a \in AssignAttrs : ChainSetAttr(a)

SpecAttr == Init /\ [][NextAttr]_vars

\* The node's property surface: reads and stores of other properties beside
\* value and attr, on nodes that have bound elements.
NextProps ==
    \/ \E p \in Names : FxGet(p)
    \/ \E p \in OwnNames, s \in Selectors : BindDot(p, s)
    \/ \E p \in OwnNames, v \in AssignVals : SetValue(p, v)
    \/ \E p \in OwnNames, a \in AssignAttrs : SetAttr(p, a)
    \/ \E p \in OwnNames, q \in OtherProps, v \in AssignVals : SetOther(p, q, v)
    \/ \E p \in OwnNames, q \in OtherProps : NodeGet(p, q)

SpecProps == Init /\ [][NextProps]_vars

\* Everything that runs bindDOM, a set trap or a listener.
NextGrow ==
    \/ \E p \in Names : FxGet(p)
    \/ \E p \in OwnNames, s \in Selectors : BindDot(p, s)
    \/ \E p \in OwnNames, v \in AssignVals : SetValue(p, v)
    \/ \E p \in OwnNames, a \in AssignAttrs : SetAttr(p, a)
    \/ \E e \in ElemIds, evt \in EventTypes : Dispatch(e, evt)

SpecGrow == Init /\ [][NextGrow]_vars

-----------------------------------------------------------------------------
(* What the claims speak of *)

NodeIds == 1..Len(heap)

Bound(n) == Range(heap[n].DOM)

\* An operation ran in this step (every operation advances steps).
Ran(op) == steps' # steps /\ last'.op = op

\* The classification table of the specification (its section 4.4), by
\* element shape: the channel a value is pushed into and read back from, and
\* the event the listener is registered for.
IsCheckable(e) == type(e) = "checkbox" \/ type(e) = "radio"
IsText(e) == (tagName(e) = "INPUT" /\ ~IsCheckable(e)) \/ tagName(e) = "TEXTAREA"

TableChannel(e) ==
    IF IsText(e) THEN "value"
    ELSE IF tagName(e) = "SELECT" THEN "selectedIndex"
    ELSE IF IsCheckable(e) THEN "checked"
    ELSE "innerHTML"

TableEvent(e) ==
    IF IsText(e) THEN "input"
    ELSE IF tagName(e) = "SELECT" THEN "change"
    ELSE IF IsCheckable(e) THEN "change"
    ELSE "input"

\* What an element shows in the channel the table gives it.
TableRead(e, el) ==
    LET c == TableChannel(e) IN
    IF c = "value" THEN JSStr(el.value)
    ELSE IF c = "checked" THEN JSBool(el.checked)
    ELSE IF c = "selectedIndex" THEN JSNum(el.selectedIndex)
    ELSE JSStr(el.innerHTML)

\* The listeners node n has on element e.
ListenersOf(n, e) == {i \in 1..Len(listeners[e]) : listeners[e][i].node = n}

\* Element e carries every pair of the map m.
HasPairs(el, m) == \A k \in DOMAIN m : k \in DOMAIN el.attrs /\ el.attrs[k] = m[k]

-----------------------------------------------------------------------------
\* C1: assigning node.value = v stores v and, before the assignment returns,
\* writes v into the channel of every bound element, so that getElementValue
\* read immediately afterwards equals v for each bound element.
C1_SetValueReachesBoundElements ==
    last.op = "setValue" =>
        /\ last.err = "none"
        /\ heap[last.node].value = last.arg
        /\ \A e \in Bound(last.node) :
              /\ getElementValue(e, elems[e]) = last.arg
              /\ TableRead(e, elems[e]) = last.arg

\* C2: when the change event of a bound text input fires, node.value becomes
\* the input's text and every other element bound to the same node shows that
\* same value when the handler returns.
C2_InputEventReachesOtherElements ==
    (last.op = "dispatch" /\ IsText(last.name) /\ last.arg = TableEvent(last.name)) =>
        \A n \in NodeIds :
            last.name \in Bound(n) =>
                /\ heap[n].value = JSStr(elems[last.name].value)
                /\ \A e \in Bound(n) : getElementValue(e, elems[e]) = heap[n].value

\* C3: the first read of a name on the root creates and stores an empty node,
\* and every later read of the name, whatever ran in between, returns that
\* same instance.  Memo(P) states it for the names in P, as a property of
\* every step: a stored instance is never replaced; a name is given a fresh,
\* empty node when first read; and a read, or an operation that starts with
\* one, gets the stored instance.
Stored(rt, p) == IF p \in DOMAIN rt THEN rt[p] ELSE 0

Memo(P) ==
    \A p \in P :
        /\ Stored(root, p) # 0 => Stored(root', p) = Stored(root, p)
        /\ (steps' # steps /\ last'.name = p /\
            last'.op \in {"fxGet", "bindDot", "bindCall", "setValue", "setAttr"}) =>
              /\ Stored(root', p) \in 1..Len(heap')
              /\ last'.node = Stored(root', p)
              /\ last'.op = "fxGet" => last'.ret = Proxy(Stored(root', p))
              /\ Stored(root, p) = 0 =>
                    /\ Stored(root', p) = Len(heap) + 1
                    /\ last'.op = "fxGet" => heap'[Stored(root', p)] = createReactiveNode

C4_NoDuplicateBoundElements ==
    \A n \in NodeIds : Cardinality(Bound(n)) = Len(heap[n].DOM)

\* A bind whose selector matched an element that was already bound.
C4_Witness ==
    /\ last.op = "bindDot"
    /\ last.arg = "input"
    /\ heap[last.node].DOM = <<"chk", "inp">>

\* C5: a bound checkbox or radio has its listener registered for the change
\* event, and when that event fires node.value becomes the element's checked
\* boolean.
C5_CheckboxChangeGivesChecked ==
    \A n \in NodeIds : \A e \in Bound(n) :
        IsCheckable(e) =>
            /\ \E i \in ListenersOf(n, e) : listeners[e][i].type = "change"
            /\ (last.op = "dispatch" /\ last.name = e /\ last.arg = "change") =>
                  heap[n].value = JSBool(elems[e].checked)

\* C6: assigning node.attr = m sets every pair of m on every bound element and
\* leaves every other attribute of every element as it was; an attribute once
\* set is never removed.
C6_AttrPairsSetOthersKept ==
    [][/\ \A e \in ElemIds : HasPairs(elems'[e], elems[e].attrs) \/
                             (Ran("setAttr") /\ e \in Range(heap'[last'.node].DOM))
       /\ Ran("setAttr") /\ heap'[last'.node].attr.obj =>
            LET n == last'.node
                m == heap'[n].attr.m
            IN \A e \in ElemIds :
                  IF e \in Range(heap'[n].DOM)
                  THEN /\ HasPairs(elems'[e], m)
                       /\ DOMAIN elems'[e].attrs = (DOMAIN elems[e].attrs) \cup (DOMAIN m)
                       /\ \A k \in (DOMAIN elems[e].attrs) \ (DOMAIN m) :
                             elems'[e].attrs[k] = elems[e].attrs[k]
                  ELSE elems'[e] = elems[e]
      ]_vars

\* A second assignment that names only id, on elements that kept their class.
C6_Witness ==
    /\ last.op = "setAttr"
    /\ last.err = "none"
    /\ heap[last.node].attr = Obj(MapId)
    /\ \E e \in Bound(last.node) :
          /\ DOMAIN elems[e].attrs = {"id", "class"}
          /\ elems[e].attrs["id"] = "z"
          /\ elems[e].attrs["class"] = "y"

\* C7: for every selector, reading it as a property of node.$ and calling
\* node.$ with it both complete without error and run the same bind: every
\* match is bound and listened to.
C7_BothCallShapesBind ==
    (last.op \in {"bindDot", "bindCall"} /\ ValidSelector(last.arg)) =>
        /\ last.err = "none"
        /\ \A e \in Range(querySelectorAll(last.arg)) :
              /\ e \in Bound(last.node)
              /\ ListenersOf(last.node, e) # {}

\* C8: a bind returns the intercepted node the root returns for that name, so
\* that a chained assignment on the returned object stores and synchronises.
C8_BindReturnsInterceptedNode ==
    /\ (last.op = "bindDot" /\ last.err = "none") =>
          last.ret = Proxy(root[last.name])
    /\ (last.op = "chainSetAttr" /\ heap[last.node].attr.obj) =>
          \A e \in Bound(last.node) : HasPairs(elems[e], heap[last.node].attr.m)

\* C9: if a node already holds a value when an element is bound to it, the
\* newly bound element shows that value as soon as the bind completes.
C9_BindShowsHeldValue ==
    [][(Ran("bindDot") /\ last'.err = "none" /\ Stored(root, last'.name) # 0) =>
          LET n == last'.node IN
          heap[n].value # Null =>
             \A e \in Range(heap'[n].DOM) \ Range(heap[n].DOM) :
                 getElementValue(e, elems'[e]) = heap'[n].value
      ]_vars

\* C10: after any sequence of binds, each bound element carries exactly one
\* listener of the node, under the event name the table gives for the element.
C10_OneListenerUnderTableEvent ==
    \A n \in NodeIds : \A e \in Bound(n) :
        /\ Cardinality(ListenersOf(n, e)) = 1
        /\ \A i \in ListenersOf(n, e) : listeners[e][i].type = TableEvent(e)

-----------------------------------------------------------------------------
\* The node that name p held before the step, or a fresh one.
Before(p, n) == IF Stored(root, p) # 0 THEN heap[n] ELSE createReactiveNode

IsPrefix(s, t) == Len(s) <= Len(t) /\ SubSeq(t, 1, Len(s)) = s

\* C11: reading a property that does not exist on a node obtained from the
\* root initialises and returns a reactive node of its own (value null, empty
\* attr, no bound elements) and stores it for later reads.
C11_NodeReadCreatesChild ==
    [][(Ran("nodeGet") /\ Before(last'.name, last'.node).props[last'.arg] = Undefined) =>
          /\ last'.ret.kind = "proxy"
          /\ last'.ret.id \in 1..Len(heap')
          /\ heap'[last'.ret.id] = createReactiveNode
      ]_vars

\* C12: a bind whose selector matches no element, the empty selector
\* included, raises no error and leaves the node's DOM list, value and attr
\* and the registered listeners as they were.
C12_NoMatchBindIsSilentNoOp ==
    [][(Ran("bindDot") /\ querySelectorAll(last'.arg) = <<>>) =>
          /\ last'.err = "none"
          /\ listeners' = listeners
          /\ heap'[last'.node] = Before(last'.name, last'.node)
      ]_vars

C14_ChannelsFollowTable ==
    \A n \in NodeIds : \A e \in Bound(n) :
        /\ inferBindingType(e) = TableChannel(e)
        /\ getElementValue(e, elems[e]) = TableRead(e, elems[e])

\* C15: a change event on a bound element writes node.value through the
\* node's setter, which synchronises every bound element; when the handler
\* returns the originating element shows what it showed when the event fired
\* and each listener has run once.
C15_EventResynchronisesOnce ==
    [][(Ran("dispatch") /\ last'.ran > 0) =>
          LET e == last'.name IN
          /\ elems'[e] = elems[e]
          /\ last'.ran = Cardinality({i \in 1..Len(listeners[e]) :
                                         listeners[e][i].type = last'.arg})
          /\ \A i \in 1..Len(listeners[e]) :
                listeners[e][i].type = last'.arg =>
                   LET n == listeners[e][i].node IN
                   \A b \in Range(heap'[n].DOM) :
                       getElementValue(b, elems'[b]) = heap'[n].value
      ]_vars

\* C16: assigning a node property other than value and attr is a plain
\* store: no element's channel or attribute changes, no listener is added,
\* and node.value, node.attr and the DOM list are as before.
C16_OtherPropertyIsPlainStore ==
    [][Ran("setOther") =>
          LET n == last'.node
              b == Before(last'.name, n)
          IN
          /\ last'.err = "none"
          /\ elems' = elems
          /\ listeners' = listeners
          /\ heap'[n].props[last'.arg] \in AssignVals
          /\ heap'[n].value = b.value
          /\ heap'[n].attr = b.attr
          /\ heap'[n].DOM = b.DOM
      ]_vars

\* A store of another property on a node that has bound elements and a value.
C16_Witness ==
    /\ last.op = "setOther"
    /\ Len(heap[last.node].DOM) > 0
    /\ heap[last.node].value # Null
    /\ heap[last.node].props[last.arg] # Undefined

\* C17: a node's DOM list only grows: what was bound stays at its position
\* with its listener attached, and a bind appends the newly matched elements
\* after the existing ones in match order.
C17_BoundElementsOnlyGrow ==
    [][/\ \A n \in NodeIds : IsPrefix(heap[n].DOM, heap'[n].DOM)
       /\ \A e \in ElemIds : IsPrefix(listeners[e], listeners'[e])
       /\ \A n \in NodeIds : \A e \in Bound(n) :
             \E i \in 1..Len(listeners'[e]) : listeners'[e][i].node = n
       /\ (Ran("bindDot") /\ last'.err = "none") =>
             LET n == last'.node
                 old == Before(last'.name, n).DOM
             IN heap'[n].DOM =
                   old \o SelectSeq(querySelectorAll(last'.arg),
                                    LAMBDA e : e \notin Range(old))
      ]_vars

\* A bind that appended three new matches after an element bound earlier.
C17_Witness ==
    /\ last.op = "bindDot"
    /\ last.arg = "body *"
    /\ heap[last.node].DOM = <<"chk", "inp", "sel", "div">>

\* C18: assigning the value node.value already holds still synchronises:
\* every bound element shows the value after the assignment.
C18_RedundantAssignmentResynchronises ==
    [][(Ran("setValue") /\ Before(last'.name, last'.node).value = last'.arg) =>
          \A e \in Range(heap'[last'.node].DOM) :
              getElementValue(e, elems'[e]) = last'.arg
      ]_vars

====
